---- MODULE Spec2Model ----
(***************************************************************************)
(* Response-centre dashboard (response.js) and its service worker (sw.js). *)
(* The foreground page polls GET /alerts for the selected centre, the      *)
(* service worker shows push notifications and hands a clicked             *)
(* notification over to the page as an ALERT_CLICKED message.              *)
(*                                                                         *)
(* Timestamps are modelled as the integers 1..MaxTime (the order of the    *)
(* backend's clock); NULL is JavaScript's null, which is falsy.            *)
(***************************************************************************)
EXTENDS Integers, Sequences, FiniteSets, Bags, TLC

\* ---- bounds of the model ------------------------------------------------
MaxTime     == 2    \* alerts the backend creates
MaxInflight == 2    \* GET /alerts requests outstanding at once
MaxTimers   == 2    \* setInterval handles in use at once
MaxPresent  == 2    \* presentation actions recorded in presentLog
MaxDash     == 1    \* setTimeout(showDashboard) timers pending at once
MaxMalformed == 1   \* alerts without a timestamp the backend creates
MaxCards    == 2    \* result cards with a location that displayResults builds
MaxServices == 2    \* entries of emergency_services in a /geocode answer

\* ---- values ---------------------------------------------------------------
NULL     == 0
NoCenter == "null"      \* JavaScript null / no stored item
NullStr  == "'null'"    \* the string 'null' that localStorage.setItem stores for null
Centers  == {"c1", "c2"}
Times    == 1..MaxTime
Undefined == -1            \* the timestamp of a payload that carries none

\* JavaScript truthiness of a timestamp-valued expression
Truthy(x) == x \notin {NULL, Undefined}

VARIABLES
    \* response.js globals
    selectedCenter,   \* let selectedCenter
    swRegistration,   \* let swRegistration (TRUE once register() resolved)
    pollInterval,     \* let pollInterval: last setInterval handle, NULL at start
    lastAlertTime,    \* let lastAlertTime
    \* browser objects of the page
    activeTimers,     \* setInterval handles that still tick
    dashTimers,       \* pending setTimeout(showDashboard, 800)
    restoreTimers,    \* number of pending 60 s auto-restore timeouts
    options,          \* the dropdown holds the centres of GET /centers
    centersPc,        \* loadCenters: "fetching", "done"
    loadPc,           \* window load listener: "pending", "timer", "done"
    dashboard,        \* #dashboard is displayed
    modalShown,       \* #alertModal is displayed
    modalAlert,       \* timestamp of the alert written into the modal
    dot,              \* class of the header status dot
    notifStatus,      \* class/text of #notifStatus
    savedCenter,      \* localStorage['selectedCenter']
    \* enableNotifications, suspended at its awaits
    enPc,             \* "idle", "registering", "waitActive", "permission",
                      \* "subscribing", "posting"
    postCenter,       \* center_name of the POST /subscribe in flight
    enCenter,         \* observer: selectedCenter at the click that started the run
                      \* in progress
    \* browser / deployment
    swSupported,      \* 'serviceWorker' in navigator
    vapidConfigured,  \* VAPID_PUBLIC_KEY set and not 'NOT_CONFIGURED'
    permission,       \* Notification.permission
    \* network and backend
    reqs,             \* bag of the GET /alerts requests in flight
    feed,             \* backend feed per centre, newest first
    now,              \* backend clock: timestamp of the newest alert
    subscribed,       \* centres with a stored push subscription
    pushes,           \* push messages on their way to the service worker
    \* service worker
    swNotif,          \* payload of the displayed notification (tag 'emergency-alert')
    msgs,             \* ALERT_CLICKED messages posted to the page
    swDelayed,        \* payloads of the pending setTimeout(postMessage, 2000)
    clickAction,      \* event.action of the last notification click: "view",
                      \* "dismiss", "none" before any click
    page,             \* the app's window: "open" (response.js evaluated, message
                      \* listener attached), "loading" (opened, script not yet
                      \* evaluated), "closed"
    \* main.js: the result cards that have a map section
    mapCards,         \* per card: showMapForResult's position, the map section's
                      \* display, the markers on the map, the centres panel, and the
                      \* /geocode answer it was given
    \* observers
    presentLog,       \* identities of the presentation actions, in order
    selPhase,         \* "none", "fresh", "seeded", "cleared"
    selectedAt        \* backend clock when showDashboard last ran

pageVars    == <<selectedCenter, swRegistration, pollInterval, lastAlertTime>>
timerVars   == <<activeTimers, dashTimers, restoreTimers>>
domVars     == <<options, centersPc, loadPc, dashboard, modalShown, modalAlert, dot,
                 notifStatus, savedCenter>>
enVars      == <<enPc, postCenter, enCenter>>
envVars     == <<swSupported, vapidConfigured, permission>>
netVars     == <<reqs, feed, now, subscribed, pushes>>
swVars      == <<swNotif, msgs, swDelayed, clickAction, page>>
obsVars     == <<presentLog, selPhase, selectedAt>>

vars == <<pageVars, timerVars, domVars, enVars, envVars, netVars, swVars, obsVars,
          mapCards>>

\* ---- helpers --------------------------------------------------------------
Range(s) == {s[i] : i \in 1..Len(s)}

Count(s, x) == Cardinality({i \in 1..Len(s) : s[i] = x})

Request(c) == [center |-> c, st |-> "sent", body |-> <<>>]

\* setInterval returns a handle that no live timer and no variable holds; which
\* number it is does not matter, so the smallest such handle is taken
Handles == 1..MaxTimers

FreeHandles == Handles \ (activeTimers \cup {pollInterval})

NewHandle == CHOOSE h \in FreeHandles : \A g \in FreeHandles : h <= g

\* ---- initial state: response.js has just been evaluated --------------------
Init ==
    /\ selectedCenter = NoCenter
    /\ swRegistration = FALSE
    /\ pollInterval = NULL
    /\ lastAlertTime = NULL
    /\ activeTimers = {}
    /\ dashTimers = 0
    /\ restoreTimers = 0
    /\ options = FALSE
    /\ centersPc = "fetching"
    /\ loadPc = "pending"
    /\ dashboard = FALSE
    /\ modalShown = FALSE
    /\ modalAlert = NULL
    /\ dot = "offline"
    /\ notifStatus = ""
    /\ savedCenter = NoCenter
    /\ enPc = "idle"
    /\ postCenter = NoCenter
    /\ enCenter = NoCenter
    /\ swSupported \in BOOLEAN
    /\ vapidConfigured \in BOOLEAN
    /\ permission = "default"
    /\ reqs = EmptyBag
    /\ feed = [c \in Centers |-> <<>>]
    /\ now = 0
    /\ subscribed = {}
    /\ pushes = {}
    /\ swNotif = NULL
    /\ msgs = <<>>
    /\ swDelayed = {}
    /\ clickAction = "none"
    /\ page = "open"
    /\ presentLog = <<>>
    /\ selPhase = "none"
    /\ selectedAt = 0
    /\ mapCards = [i \in 1..MaxCards |->
                      [pc |-> "none", section |-> "none", markers |-> <<>>,
                       panel |-> [kind |-> "none", items |-> <<>>],
                       answer |-> [st |-> "none", found |-> FALSE, services |-> <<>>]]]

\* ---- loadAlerts: the part before the await -----------------------------------
\* if (!selectedCenter) return; fetch(`/alerts?center=...`)
CanFetch == selectedCenter = NoCenter \/ BagCardinality(reqs) < MaxInflight

loadAlerts ==
    reqs' = IF selectedCenter = NoCenter THEN reqs
            ELSE reqs (+) SetToBag({Request(selectedCenter)})

\* ---- showAlertModal -----------------------------------------------------------
showAlertModal(t) ==
    /\ modalShown' = TRUE
    /\ modalAlert' = t
    /\ dot' = "alerting"
    /\ restoreTimers' = restoreTimers + 1

\* one presentation action: playEmergencySound(5); showAlertModal(data)
Present(t) ==
    /\ Len(presentLog) < MaxPresent
    /\ presentLog' = Append(presentLog, t)
    /\ showAlertModal(t)

\* the 60 s timeout without its assignment to the dot
RestoreTimerFires_DotKept ==
    /\ restoreTimers > 0
    /\ restoreTimers' = restoreTimers - 1
    /\ UNCHANGED <<pageVars, activeTimers, dashTimers, domVars, enVars, envVars,
                   netVars, swVars, obsVars, mapCards>>

\* setTimeout(() => { dot.className = 'dot online' }, 60000)
RestoreTimerFires ==
    /\ restoreTimers > 0
    /\ restoreTimers' = restoreTimers - 1
    /\ dot' = "online"
    /\ UNCHANGED <<pageVars, activeTimers, dashTimers, options, centersPc,
                   loadPc, dashboard, modalShown, modalAlert, notifStatus, savedCenter,
                   enVars, envVars, netVars, swVars, obsVars, mapCards>>

dismissAlertBtn ==
    /\ modalShown
    /\ modalShown' = FALSE
    /\ dot' = "online"
    /\ UNCHANGED <<pageVars, timerVars, options, centersPc, loadPc, dashboard,
                   modalAlert, notifStatus, savedCenter, enVars, envVars, netVars,
                   swVars, obsVars, mapCards>>

\* ---- loadCenters ----------------------------------------------------------------
loadCentersDone ==
    /\ centersPc = "fetching"
    /\ centersPc' = "done"
    /\ options' = TRUE
    /\ selectedCenter' = IF savedCenter \in Centers THEN savedCenter ELSE selectedCenter
    /\ UNCHANGED <<swRegistration, pollInterval, lastAlertTime, timerVars, loadPc,
                   dashboard, modalShown, modalAlert, dot, notifStatus, savedCenter,
                   enVars, envVars, netVars, swVars, obsVars, mapCards>>

loadCentersFailed ==
    /\ centersPc = "fetching"
    /\ centersPc' = "done"
    /\ UNCHANGED <<pageVars, timerVars, options, loadPc, dashboard, modalShown,
                   modalAlert, dot, notifStatus, savedCenter, enVars, envVars,
                   netVars, swVars, obsVars, mapCards>>

\* ---- dropdown change ----------------------------------------------------------------
centerSelectChange ==
    /\ options
    /\ ~dashboard
    /\ \E v \in Centers \cup {NoCenter} :
          /\ v # selectedCenter
          /\ selectedCenter' = v
    /\ notifStatus' = ""
    /\ selPhase' = IF selPhase = "cleared" THEN "none" ELSE selPhase
    /\ UNCHANGED <<swRegistration, pollInterval, lastAlertTime, timerVars, options,
                   centersPc, loadPc, dashboard, modalShown, modalAlert, dot,
                   savedCenter, enVars, envVars, netVars, swVars, presentLog,
                   selectedAt, mapCards>>

\* ---- enableNotifications -----------------------------------------------------------
\* step 4: persist the choice, report success, schedule showDashboard
enPersist ==
    /\ savedCenter' = IF selectedCenter = NoCenter THEN NullStr ELSE selectedCenter
    /\ notifStatus' = "success"
    /\ dashTimers' = dashTimers + 1
    /\ enPc' = "idle"
    /\ enCenter' = NoCenter

\* the click: guard, status text, service-worker support test, register() call
enableNotifications ==
    /\ enPc = "idle"
    /\ ~dashboard
    /\ selectedCenter # NoCenter
    /\ dashTimers < MaxDash
    /\ IF ~swSupported
          THEN /\ notifStatus' = "error"
               /\ enPc' = "idle"
          ELSE /\ notifStatus' = "pending"
               /\ enPc' = "registering"
    /\ enCenter' = IF swSupported THEN selectedCenter ELSE NoCenter
    /\ UNCHANGED <<pageVars, timerVars, options, centersPc, loadPc, dashboard,
                   modalShown, modalAlert, dot, savedCenter, postCenter, envVars,
                   netVars, swVars, obsVars, mapCards>>

enRegisterResolved ==
    /\ enPc = "registering"
    /\ swRegistration' = TRUE
    /\ enPc' = "waitActive"
    /\ UNCHANGED <<selectedCenter, pollInterval, lastAlertTime, timerVars, domVars,
                   postCenter, enCenter, envVars, netVars, swVars, obsVars, mapCards>>

\* variant: a rejected register() falls through to step 4 like a failed subscription
enRegisterRejected_FallsThrough ==
    /\ enPc = "registering"
    /\ enPersist
    /\ UNCHANGED <<pageVars, activeTimers, restoreTimers, options, centersPc, loadPc,
                   dashboard, modalShown, modalAlert, dot, postCenter, envVars,
                   netVars, swVars, obsVars, mapCards>>

enRegisterRejected ==
    /\ enPc = "registering"
    /\ notifStatus' = "error"
    /\ enPc' = "idle"
    /\ enCenter' = NoCenter
    /\ UNCHANGED <<pageVars, timerVars, options, centersPc, loadPc, dashboard,
                   modalShown, modalAlert, dot, savedCenter, postCenter,
                   envVars, netVars, swVars, obsVars, mapCards>>

\* swRegistration.active is set, or the installing worker reaches 'activated'
enActivated ==
    /\ enPc = "waitActive"
    /\ enPc' = "permission"
    /\ UNCHANGED <<pageVars, timerVars, domVars, postCenter, enCenter, envVars,
                   netVars, swVars, obsVars, mapCards>>

\* variant: the wait for activation without its failsafe timeout
enActivationTimeout_Missing ==
    /\ FALSE
    /\ UNCHANGED vars

\* setTimeout(resolve, 3000)
enActivationTimeout ==
    /\ enPc = "waitActive"
    /\ enPc' = "permission"
    /\ UNCHANGED <<pageVars, timerVars, domVars, postCenter, enCenter, envVars,
                   netVars, swVars, obsVars, mapCards>>

\* variant: a denied permission falls through to step 4 like a failed subscription
enPermissionDenied_FallsThrough ==
    /\ enPc = "permission"
    /\ permission # "granted"
    /\ \E answer \in {"default", "denied"} :
          /\ permission = "denied" => answer = "denied"
          /\ permission' = answer
    /\ enPersist
    /\ UNCHANGED <<pageVars, activeTimers, restoreTimers, options, centersPc, loadPc,
                   dashboard, modalShown, modalAlert, dot, postCenter, swSupported,
                   vapidConfigured, netVars, swVars, obsVars, mapCards>>

\* Notification.requestPermission() answers with something other than 'granted'
enPermissionDenied ==
    /\ enPc = "permission"
    /\ permission # "granted"
    /\ \E answer \in {"default", "denied"} :
          /\ permission = "denied" => answer = "denied"
          /\ permission' = answer
    /\ notifStatus' = "error"
    /\ enPc' = "idle"
    /\ enCenter' = NoCenter
    /\ UNCHANGED <<pageVars, timerVars, options, centersPc, loadPc, dashboard,
                   modalShown, modalAlert, dot, savedCenter, postCenter,
                   swSupported, vapidConfigured, netVars, swVars, obsVars, mapCards>>

\* variant: step 3 without the test of VAPID_PUBLIC_KEY
enPermissionGranted_AlwaysSubscribes ==
    /\ enPc = "permission"
    /\ permission # "denied"
    /\ permission' = "granted"
    /\ enPc' = "subscribing"
    /\ UNCHANGED <<pageVars, timerVars, domVars, postCenter, enCenter, swSupported,
                   vapidConfigured, netVars, swVars, obsVars, mapCards>>

\* Notification.requestPermission() answers 'granted'
enPermissionGranted ==
    /\ enPc = "permission"
    /\ permission # "denied"
    /\ permission' = "granted"
    /\ IF vapidConfigured
          THEN /\ enPc' = "subscribing"
               /\ UNCHANGED <<savedCenter, notifStatus, dashTimers, enCenter>>
          ELSE enPersist
    /\ UNCHANGED <<pageVars, activeTimers, restoreTimers, options,
                   centersPc, loadPc, dashboard, modalShown, modalAlert, dot, postCenter, swSupported, vapidConfigured, netVars, swVars, obsVars, mapCards>>

\* pushManager.subscribe resolved: POST /subscribe {center_name: selectedCenter}
enSubscribeResolved ==
    /\ enPc = "subscribing"
    /\ enPc' = "posting"
    /\ postCenter' = selectedCenter
    /\ enCenter' = enCenter
    /\ UNCHANGED <<pageVars, timerVars, domVars, envVars, netVars, swVars,
                   obsVars, mapCards>>

\* variant: a rejected pushManager.subscribe ends the run like a denied permission
enSubscribeRejected_Aborts ==
    /\ enPc = "subscribing"
    /\ notifStatus' = "error"
    /\ enPc' = "idle"
    /\ enCenter' = NoCenter
    /\ UNCHANGED <<pageVars, timerVars, options, centersPc, loadPc, dashboard,
                   modalShown, modalAlert, dot, savedCenter, postCenter, envVars,
                   netVars, swVars, obsVars, mapCards>>

\* pushManager.subscribe rejected: caught, falls through to step 4
enSubscribeRejected ==
    /\ enPc = "subscribing"
    /\ enPersist
    /\ UNCHANGED <<pageVars, activeTimers, restoreTimers, options,
                   centersPc, loadPc, dashboard, modalShown, modalAlert, dot, postCenter, envVars, netVars, swVars, obsVars, mapCards>>

\* the backend stored the subscription and the fetch resolved
enPostResolved ==
    /\ enPc = "posting"
    /\ subscribed' = subscribed \cup ({postCenter} \cap Centers)
    /\ postCenter' = NoCenter
    /\ enPersist
    /\ UNCHANGED <<pageVars, activeTimers, restoreTimers, options,
                   centersPc, loadPc, dashboard, modalShown, modalAlert, dot, envVars, reqs, feed, now, pushes, swVars, obsVars, mapCards>>

\* the fetch rejected: caught, falls through to step 4
enPostRejected ==
    /\ enPc = "posting"
    /\ postCenter' = NoCenter
    /\ enPersist
    /\ UNCHANGED <<pageVars, activeTimers, restoreTimers, options,
                   centersPc, loadPc, dashboard, modalShown, modalAlert, dot, envVars, netVars, swVars, obsVars, mapCards>>

\* ---- showDashboard / changeCenterView ------------------------------------------------
\* variant: setInterval without the clearInterval of the previous handle
showDashboard_NoClear ==
    /\ FreeHandles # {}
    /\ CanFetch
    /\ dashboard' = TRUE
    /\ dot' = "online"
    /\ loadAlerts
    /\ activeTimers' = activeTimers \cup {NewHandle}
    /\ pollInterval' = NewHandle
    /\ selPhase' = "fresh"
    /\ selectedAt' = now

showDashboard ==
    /\ FreeHandles # {}
    /\ CanFetch
    /\ dashboard' = TRUE
    /\ dot' = "online"
    /\ loadAlerts
    /\ activeTimers' = (activeTimers \ {pollInterval}) \cup {NewHandle}
    /\ pollInterval' = NewHandle
    /\ selPhase' = "fresh"
    /\ selectedAt' = now

\* setTimeout(() => showDashboard(), 800) of enableNotifications fires
dashTimerFires ==
    /\ dashTimers > 0
    /\ dashTimers' = dashTimers - 1
    /\ showDashboard
    /\ UNCHANGED <<selectedCenter, swRegistration, lastAlertTime, restoreTimers,
                   options, centersPc, loadPc, modalShown, modalAlert, notifStatus,
                   savedCenter, enVars, envVars, feed, now, subscribed, pushes,
                   swVars, presentLog, mapCards>>

changeCenterView ==
    /\ dashboard
    /\ activeTimers' = activeTimers \ {pollInterval}
    /\ dashboard' = FALSE
    /\ dot' = "offline"
    /\ selPhase' = "cleared"
    /\ UNCHANGED <<pageVars, dashTimers, restoreTimers, options, centersPc,
                   loadPc, modalShown, modalAlert, notifStatus, savedCenter, enVars,
                   envVars, netVars, swVars, presentLog, selectedAt, mapCards>>

\* ---- the polling loop ----------------------------------------------------------------
\* a tick of setInterval(loadAlerts, 15000)
pollTick ==
    /\ activeTimers # {}
    /\ selectedCenter # NoCenter
    /\ BagCardinality(reqs) < MaxInflight
    /\ loadAlerts
    /\ UNCHANGED <<pageVars, timerVars, domVars, enVars, envVars, feed, now,
                   subscribed, pushes, swVars, obsVars, mapCards>>

\* variant: the test for a new alert without the comparison with lastAlertTime
loadAlertsResume_NoComparison ==
    \E r \in BagToSet(reqs) :
       LET alerts == r.body
           newest == alerts[1]
       IN /\ r.st = "ok"
          /\ reqs' = reqs (-) SetToBag({r})
          /\ IF Len(alerts) > 0
                THEN /\ IF Truthy(lastAlertTime)
                           THEN Present(newest)
                           ELSE UNCHANGED <<presentLog, modalShown, modalAlert, dot,
                                            restoreTimers>>
                     /\ lastAlertTime' = newest
                ELSE UNCHANGED <<presentLog, modalShown, modalAlert, dot,
                                 restoreTimers, lastAlertTime>>
          /\ selPhase' = IF selPhase = "fresh" THEN "seeded" ELSE selPhase
          /\ UNCHANGED <<selectedCenter, swRegistration, pollInterval, activeTimers,
                         dashTimers, options, centersPc, loadPc, dashboard,
                         notifStatus, savedCenter, enVars, envVars, feed, now,
                         subscribed, pushes, swVars, selectedAt, mapCards>>

\* loadAlerts after its awaits, on a decoded response
loadAlertsResume ==
    \E r \in BagToSet(reqs) :
       LET alerts == r.body
           newest == alerts[1]
       IN /\ r.st = "ok"
          /\ reqs' = reqs (-) SetToBag({r})
          /\ IF Len(alerts) > 0
                THEN /\ IF Truthy(lastAlertTime) /\ newest # lastAlertTime
                           THEN Present(newest)
                           ELSE UNCHANGED <<presentLog, modalShown, modalAlert, dot,
                                            restoreTimers>>
                     /\ lastAlertTime' = newest
                ELSE UNCHANGED <<presentLog, modalShown, modalAlert, dot,
                                 restoreTimers, lastAlertTime>>
          /\ selPhase' = IF selPhase = "fresh" THEN "seeded" ELSE selPhase
          /\ UNCHANGED <<selectedCenter, swRegistration, pollInterval, activeTimers,
                         dashTimers, options, centersPc, loadPc, dashboard,
                         notifStatus, savedCenter, enVars, envVars, feed, now,
                         subscribed, pushes, swVars, selectedAt, mapCards>>

\* variant: a catch that gives up polling
loadAlertsCatch_StopsPolling ==
    \E r \in BagToSet(reqs) :
       /\ r.st = "sent"
       /\ reqs' = reqs (-) SetToBag({r})
       /\ activeTimers' = activeTimers \ {pollInterval}
       /\ UNCHANGED <<pageVars, dashTimers, restoreTimers, domVars, enVars, envVars,
                      feed, now, subscribed, pushes, swVars, obsVars, mapCards>>

\* loadAlerts' catch: the fetch rejected, or the answer was not JSON and res.json()
\* rejected; either way the request ends without a decoded response
loadAlertsCatch ==
    \E r \in BagToSet(reqs) :
       /\ r.st = "sent"
       /\ reqs' = reqs (-) SetToBag({r})
       /\ UNCHANGED <<pageVars, timerVars, domVars, enVars, envVars, feed, now,
                      subscribed, pushes, swVars, obsVars, mapCards>>

\* ---- message listener of the page ----------------------------------------------------
onAlertClicked ==
    /\ swSupported
    /\ page = "open"
    /\ msgs # <<>>
    /\ CanFetch
    /\ Present(Head(msgs))
    /\ msgs' = Tail(msgs)
    /\ loadAlerts
    /\ UNCHANGED <<pageVars, activeTimers, dashTimers, options, centersPc,
                   loadPc, dashboard, notifStatus, savedCenter, enVars, envVars, feed,
                   now, subscribed, pushes, swNotif, swDelayed, clickAction, page,
                   selPhase,
                   selectedAt, mapCards>>

\* ---- backend --------------------------------------------------------------------------
\* GET /alerts?center=c answers with the centre's feed, newest first
AlertsOf(c) == IF c \in Centers THEN feed[c] ELSE <<>>

alertsRespond ==
    \E r \in BagToSet(reqs) :
       /\ r.st = "sent"
       /\ reqs' = (reqs (-) SetToBag({r}))
                     (+) SetToBag({[r EXCEPT !.st = "ok", !.body = AlertsOf(r.center)]})
       /\ UNCHANGED <<pageVars, timerVars, domVars, enVars, envVars, feed, now,
                      subscribed, pushes, swVars, obsVars, mapCards>>

\* an incident is ingested for centre c: stored in its feed, pushed to its subscription
newAlert ==
    /\ now < MaxTime
    /\ \E c \in Centers :
          /\ feed' = [feed EXCEPT ![c] = <<now + 1>> \o @]
          /\ pushes' = IF c \in subscribed THEN pushes \cup {now + 1} ELSE pushes
    /\ now' = now + 1
    /\ UNCHANGED <<pageVars, timerVars, domVars, enVars, envVars, reqs, subscribed,
                   swVars, obsVars, mapCards>>

\* an incident record without a timestamp is ingested for centre c
MalformedAlerts == {<<c, i>> \in Centers \X (1..(MaxTime + MaxMalformed)) :
                       i <= Len(feed[c]) /\ feed[c][i] = Undefined}

newMalformedAlert ==
    /\ Cardinality(MalformedAlerts) < MaxMalformed
    /\ \E c \in Centers :
          /\ feed' = [feed EXCEPT ![c] = <<Undefined>> \o @]
          /\ pushes' = IF c \in subscribed THEN pushes \cup {Undefined} ELSE pushes
    /\ UNCHANGED <<pageVars, timerVars, domVars, enVars, envVars, reqs, now,
                   subscribed, swVars, obsVars, mapCards>>

\* ---- service worker -------------------------------------------------------------------
\* what event.data of a push message can be: a JSON object, no data at all, text
\* that is not JSON, or the JSON text null; a message that carries a timestamp is a
\* JSON object
PushForms == {"object", "absent", "text", "null"}

FormsOf(t) == IF t = Undefined THEN PushForms ELSE {"object"}

\* 'push': data is the parsed object, {} without data, {title, body} built by the
\* catch for text; showNotification with tag 'emergency-alert' replaces the one
\* displayed. For the JSON text null, data is null and `data.priority` throws
\* before showNotification is reached
swPush ==
    \E t \in pushes : \E form \in FormsOf(t) :
       /\ pushes' = pushes \ {t}
       /\ swNotif' = IF form = "null" THEN swNotif ELSE t
       /\ UNCHANGED <<pageVars, timerVars, domVars, enVars, envVars, reqs, feed, now,
                      subscribed, msgs, swDelayed, clickAction, page, obsVars, mapCards>>

\* 'notificationclick' with action 'view' (or a click on the body): a window of the
\* app found by clients.matchAll is focused and is posted {type: 'ALERT_CLICKED',
\* payload}; without one, clients.openWindow opens the app and the message is left
\* to a 2 s timeout
swNotificationClickView ==
    /\ swNotif # NULL
    /\ swNotif' = NULL
    /\ clickAction' = "view"
    /\ IF page # "closed"
          THEN /\ msgs' = Append(msgs, swNotif)
               /\ UNCHANGED <<swDelayed, page>>
          ELSE /\ page' = "loading"
               /\ swDelayed' = swDelayed \cup {swNotif}
               /\ UNCHANGED msgs
    /\ UNCHANGED <<pageVars, timerVars, domVars, enVars, envVars, netVars, obsVars, mapCards>>

\* setTimeout(() => newClient.postMessage({type: 'ALERT_CLICKED', payload}), 2000):
\* the message goes to the window that openWindow returned, whatever that window
\* has done by then; a window closed in the meantime receives nothing
swDelayedPost ==
    \E t \in swDelayed :
       /\ swDelayed' = swDelayed \ {t}
       /\ msgs' = IF page = "closed" THEN msgs ELSE Append(msgs, t)
       /\ UNCHANGED <<pageVars, timerVars, domVars, enVars, envVars, netVars, swNotif,
                      clickAction, page, obsVars, mapCards>>

\* variant: the 'dismiss' action without its early return
swNotificationClickDismiss_FallsThrough ==
    /\ swNotif # NULL
    /\ swNotif' = NULL
    /\ clickAction' = "dismiss"
    /\ IF page # "closed"
          THEN /\ msgs' = Append(msgs, swNotif)
               /\ UNCHANGED <<swDelayed, page>>
          ELSE /\ page' = "loading"
               /\ swDelayed' = swDelayed \cup {swNotif}
               /\ UNCHANGED msgs
    /\ UNCHANGED <<pageVars, timerVars, domVars, enVars, envVars, netVars, obsVars, mapCards>>

\* 'notificationclick' with action 'dismiss'
swNotificationClickDismiss ==
    /\ swNotif # NULL
    /\ swNotif' = NULL
    /\ clickAction' = "dismiss"
    /\ UNCHANGED <<pageVars, timerVars, domVars, enVars, envVars, netVars, msgs,
                   swDelayed, page, obsVars, mapCards>>

\* ---- page load --------------------------------------------------------------------------
\* window 'load' listener: resume a saved centre when permission is already granted
windowLoad ==
    /\ loadPc = "pending"
    /\ IF savedCenter # NoCenter /\ permission = "granted"
          THEN /\ selectedCenter' = savedCenter
               /\ loadPc' = savedCenter
          ELSE /\ loadPc' = "done"
               /\ UNCHANGED selectedCenter
    /\ UNCHANGED <<swRegistration, pollInterval, lastAlertTime, timerVars, options,
                   centersPc, dashboard, modalShown, modalAlert, dot, notifStatus,
                   savedCenter, enVars, envVars, netVars, swVars, obsVars, mapCards>>

\* its setTimeout(..., 600): select.value = saved; if it took, showDashboard()
loadTimerFires ==
    /\ loadPc \notin {"pending", "done"}
    /\ loadPc' = "done"
    /\ IF options /\ loadPc \in Centers
          THEN showDashboard
          ELSE UNCHANGED <<dashboard, dot, reqs, activeTimers, pollInterval, selPhase, selectedAt>>
    /\ UNCHANGED <<selectedCenter, swRegistration, lastAlertTime, dashTimers,
                   restoreTimers, options, centersPc, modalShown, modalAlert,
                   notifStatus, savedCenter, enVars, envVars, feed, now, subscribed,
                   pushes, swVars, presentLog, mapCards>>

\* the operator reloads the page: response.js is evaluated again; localStorage, the
\* permission, the backend and the service worker outlive the page
pageReload ==
    /\ page = "open"
    /\ selectedCenter' = NoCenter
    /\ swRegistration' = FALSE
    /\ pollInterval' = NULL
    /\ lastAlertTime' = NULL
    /\ activeTimers' = {}
    /\ dashTimers' = 0
    /\ restoreTimers' = 0
    /\ options' = FALSE
    /\ centersPc' = "fetching"
    /\ loadPc' = "pending"
    /\ dashboard' = FALSE
    /\ modalShown' = FALSE
    /\ modalAlert' = NULL
    /\ dot' = "offline"
    /\ notifStatus' = ""
    /\ enPc' = "idle"
    /\ postCenter' = NoCenter
    /\ enCenter' = NoCenter
    /\ reqs' = EmptyBag
    /\ msgs' = <<>>
    /\ presentLog' = <<>>
    /\ selPhase' = "none"
    /\ selectedAt' = 0
    /\ UNCHANGED <<savedCenter, envVars, feed, now, subscribed, pushes, swNotif,
                   swDelayed, clickAction, page, mapCards>>

\* the operator closes the app's window: its globals, timers, requests and queued
\* messages go with it, and nothing of the page is pending while page # "open"
pageClose ==
    /\ page = "open"
    /\ page' = "closed"
    /\ selectedCenter' = NoCenter
    /\ swRegistration' = FALSE
    /\ pollInterval' = NULL
    /\ lastAlertTime' = NULL
    /\ activeTimers' = {}
    /\ dashTimers' = 0
    /\ restoreTimers' = 0
    /\ options' = FALSE
    /\ centersPc' = "done"
    /\ loadPc' = "done"
    /\ dashboard' = FALSE
    /\ modalShown' = FALSE
    /\ modalAlert' = NULL
    /\ dot' = "offline"
    /\ notifStatus' = ""
    /\ enPc' = "idle"
    /\ postCenter' = NoCenter
    /\ enCenter' = NoCenter
    /\ reqs' = EmptyBag
    /\ msgs' = <<>>
    /\ presentLog' = <<>>
    /\ selPhase' = "none"
    /\ selectedAt' = 0
    /\ UNCHANGED <<savedCenter, envVars, feed, now, subscribed, pushes, swNotif,
                   swDelayed, clickAction, mapCards>>

\* the window that clients.openWindow opened has evaluated response.js: loadCenters()
\* is under way, the load listener is pending and the message listener is attached;
\* messages posted to the window before this are delivered to the listener now
pageLoaded ==
    /\ page = "loading"
    /\ page' = "open"
    /\ centersPc' = "fetching"
    /\ loadPc' = "pending"
    /\ UNCHANGED <<pageVars, timerVars, options, dashboard, modalShown, modalAlert,
                   dot, notifStatus, savedCenter, enVars, envVars, netVars, swNotif,
                   msgs, swDelayed, clickAction, obsVars, mapCards>>

\* ---- main.js: map and help centres of a result card ---------------------------------------
Cards == 1..MaxCards

ServiceTypes == {"hospital", "police", "fire_station"}

ServiceLists == UNION {[1..n -> ServiceTypes] : n \in 0..MaxServices}

\* what the POST /geocode of showMapForResult can come back with: a rejected fetch,
\* a status that is not ok or a body that is not JSON ("failed"); found = false;
\* found = true with the ranked list emergency_services
GeoAnswers ==
    {[st |-> "failed", found |-> FALSE, services |-> <<>>],
     [st |-> "ok", found |-> FALSE, services |-> <<>>]}
       \cup {[st |-> "ok", found |-> TRUE, services |-> l] : l \in ServiceLists}

NoAnswer == [st |-> "none", found |-> FALSE, services |-> <<>>]

BlankCard == [pc |-> "none", section |-> "none", markers |-> <<>>,
              panel |-> [kind |-> "none", items |-> <<>>], answer |-> NoAnswer]

\* createMapSection(index): the section is displayed, the panel shows the spinner
createMapSection ==
    [pc |-> "fetching", section |-> "visible", markers |-> <<>>,
     panel |-> [kind |-> "loading", items |-> <<>>], answer |-> NoAnswer]

\* variant: an empty emergency_services list taken for a failed lookup
MapResult_EmptyIsError(card, data) ==
    IF data.st = "failed" \/ ~data.found \/ data.services = <<>>
       THEN [card EXCEPT !.pc = "done", !.section = "hidden", !.answer = data]
       ELSE [card EXCEPT !.pc = "done", !.answer = data,
                         !.markers = <<"incident">> \o data.services,
                         !.panel = [kind |-> "list", items |-> data.services]]

\* variant: the panel lists the services last to first
MapResult_Reversed(card, data) ==
    IF data.st = "failed" \/ ~data.found
       THEN [card EXCEPT !.pc = "done", !.section = "hidden", !.answer = data]
       ELSE [card EXCEPT !.pc = "done", !.answer = data,
                         !.markers = <<"incident">> \o data.services,
                         !.panel = IF Len(data.services) = 0
                                      THEN [kind |-> "empty", items |-> <<>>]
                                      ELSE [kind |-> "list",
                                            items |-> [k \in 1..Len(data.services) |->
                                               data.services[Len(data.services) + 1 - k]]]]

\* showMapForResult after its awaits: the catch and found = false hide the section;
\* otherwise the incident marker, one marker per service in the order of the list,
\* and the panel: the 'No help centers found nearby.' text for an empty list, else
\* one item per service in the order of the list
MapResult(card, data) ==
    IF data.st = "failed" \/ ~data.found
       THEN [card EXCEPT !.pc = "done", !.section = "hidden", !.answer = data]
       ELSE [card EXCEPT !.pc = "done", !.answer = data,
                         !.markers = <<"incident">> \o data.services,
                         !.panel = IF Len(data.services) = 0
                                      THEN [kind |-> "empty", items |-> <<>>]
                                      ELSE [kind |-> "list", items |-> data.services]]

\* displayResults reaches the next result with a location: createMapSection, then
\* the call of showMapForResult, which it awaits before the next result
mapSectionCreated ==
    \E i \in Cards :
       /\ mapCards[i].pc = "none"
       /\ \A j \in 1..(i - 1) : mapCards[j].pc = "done"
       /\ mapCards' = [mapCards EXCEPT ![i] = createMapSection]
       /\ UNCHANGED <<pageVars, timerVars, domVars, enVars, envVars, netVars, swVars,
                      obsVars>>

showMapForResult ==
    \E i \in Cards : \E data \in GeoAnswers :
       /\ mapCards[i].pc = "fetching"
       /\ mapCards' = [mapCards EXCEPT ![i] = MapResult(@, data)]
       /\ UNCHANGED <<pageVars, timerVars, domVars, enVars, envVars, netVars, swVars,
                      obsVars>>

\* displayResults for a new batch: resultsContainer.innerHTML = ''
displayResults ==
    /\ \E i \in Cards : mapCards[i].pc = "done"
    /\ \A i \in Cards : mapCards[i].pc # "fetching"
    /\ mapCards' = [i \in Cards |-> BlankCard]
    /\ UNCHANGED <<pageVars, timerVars, domVars, enVars, envVars, netVars, swVars,
                   obsVars>>

\* ---- specifications ----------------------------------------------------------------------
\* the page comes up and the operator picks a centre
SelectNext ==
    \/ loadCentersDone
    \/ windowLoad
    \/ centerSelectChange

\* enableNotifications up to a granted permission, and the dashboard it opens
EnableNext ==
    \/ enableNotifications
    \/ enRegisterResolved
    \/ enActivated
    \/ enPermissionGranted
    \/ dashTimerFires

\* the failures on the way
EnableFailNext ==
    \/ loadCentersFailed
    \/ enRegisterRejected
    \/ enActivationTimeout
    \/ enPermissionDenied

\* the push subscription of enableNotifications
SubscribeNext ==
    \/ enSubscribeResolved
    \/ enPostResolved

SubscribeFailNext ==
    \/ enSubscribeRejected
    \/ enPostRejected

\* one GET /alerts round trip
FetchNext ==
    \/ alertsRespond
    \/ loadAlertsResume

\* the polling loop
PollNext ==
    \/ pollTick
    \/ loadAlertsCatch

\* the modal
ModalNext ==
    \/ RestoreTimerFires
    \/ dismissAlertBtn

\* the push channel: service worker and the page's message listener
PushNext ==
    \/ swPush
    \/ swNotificationClickView
    \/ swNotificationClickDismiss
    \/ onAlertClicked

\* a page session after a reload
ReloadNext ==
    \/ pageReload
    \/ loadTimerFires

Next ==
    \/ SelectNext
    \/ EnableNext
    \/ EnableFailNext
    \/ SubscribeNext
    \/ SubscribeFailNext
    \/ changeCenterView
    \/ FetchNext
    \/ PollNext
    \/ newAlert
    \/ ModalNext
    \/ PushNext
    \/ ReloadNext
    \/ mapSectionCreated
    \/ showMapForResult
    \/ displayResults
    \/ newMalformedAlert
    \/ swDelayedPost
    \/ pageClose
    \/ pageLoaded

\* the whole system.  Its state space is the product of every activity below; the
\* properties are checked under SpecPoll, SpecPush and SpecEnable, each of which runs a
\* subset of these actions from the same initial states.
Spec == Init /\ [][Next]_vars

\* polling only: no VAPID key is configured, so no subscription and no push
InitPoll == Init /\ swSupported /\ ~vapidConfigured

NextPoll ==
    \/ SelectNext
    \/ EnableNext
    \/ changeCenterView
    \/ FetchNext
    \/ PollNext
    \/ newAlert

SpecPoll == InitPoll /\ [][NextPoll]_vars

\* push and poll together in one selection: the VAPID key is configured
InitPush == Init /\ swSupported /\ vapidConfigured

NextPush ==
    \/ SelectNext
    \/ EnableNext
    \/ SubscribeNext
    \/ FetchNext
    \/ newAlert
    \/ PushNext
    \/ dismissAlertBtn

SpecPush == InitPush /\ [][NextPush]_vars

\* enableNotifications with all its outcomes, and the polling it starts
NextEnable ==
    \/ SelectNext
    \/ EnableNext
    \/ EnableFailNext
    \/ SubscribeNext
    \/ SubscribeFailNext
    \/ changeCenterView
    \/ FetchNext
    \/ PollNext

SpecEnable == Init /\ [][NextEnable]_vars

\* enableNotifications with a service worker that never reaches 'activated': no
\* enActivated step; the failsafe timeout, once set, fires
NextStalledWorker ==
    \/ SelectNext
    \/ enableNotifications
    \/ enRegisterResolved
    \/ enActivationTimeout
    \/ enPermissionGranted
    \/ enPermissionDenied
    \/ SubscribeNext
    \/ dashTimerFires

SpecStalledWorker ==
    Init /\ [][NextStalledWorker]_vars /\ WF_vars(enActivationTimeout)

\* push and poll when the backend also issues an alert without a timestamp
NextMalformed ==
    \/ SelectNext
    \/ EnableNext
    \/ SubscribeNext
    \/ FetchNext
    \/ newAlert
    \/ newMalformedAlert
    \/ PushNext

SpecMalformed == InitPush /\ [][NextMalformed]_vars

\* a subscribed centre whose window the operator closes: notification clicks open
\* the app again
NextHandoff ==
    \/ SelectNext
    \/ EnableNext
    \/ SubscribeNext
    \/ FetchNext
    \/ newAlert
    \/ PushNext
    \/ swDelayedPost
    \/ pageClose
    \/ pageLoaded
    \/ loadTimerFires

SpecHandoff == InitPush /\ [][NextHandoff]_vars

\* notifications of a subscribed centre and the clicks on them, with the app's
\* window open or closed; the page does not consume the messages
NextClick ==
    \/ SelectNext
    \/ EnableNext
    \/ SubscribeNext
    \/ newAlert
    \/ swPush
    \/ swNotificationClickView
    \/ swNotificationClickDismiss
    \/ swDelayedPost
    \/ pageClose
    \/ pageLoaded

SpecClick == InitPush /\ [][NextClick]_vars

\* main.js: the map sections of the result cards
NextMap ==
    \/ mapSectionCreated
    \/ showMapForResult
    \/ displayResults

SpecMap == InitPush /\ [][NextMap]_vars

\* dashboards opened by enableNotifications and by the auto-resume of a reloaded
\* page, and left by 'change centre'
NextTimers ==
    \/ SelectNext
    \/ EnableNext
    \/ changeCenterView
    \/ ReloadNext
    \/ PollNext

SpecTimers == InitPoll /\ [][NextTimers]_vars

\* one selection with its polling loop and the alert modal, no push; the operator
\* leaves the dropdown alone while enableNotifications is running (SpecEnable
\* covers that interleaving)
NextSession ==
    \/ loadCentersDone
    \/ windowLoad
    \/ (enPc = "idle" /\ centerSelectChange)
    \/ EnableNext
    \/ FetchNext
    \/ pollTick
    \/ newAlert
    \/ ModalNext

SpecSession == InitPoll /\ [][NextSession]_vars

\* one selection with a polling loop whose requests may fail
NextRetry ==
    \/ SelectNext
    \/ EnableNext
    \/ FetchNext
    \/ PollNext
    \/ newAlert

SpecRetry == InitPoll /\ [][NextRetry]_vars

\* ---- properties ------------------------------------------------------------------------------
\* a GET /alerts response r is processed by loadAlerts in this step
Processes(r) == r.st = "ok" /\ reqs' = reqs (-) SetToBag({r})

\* C1: an alert identity delivered by push and by poll, in either order, is presented
\* exactly once: no timestamp occurs twice among the presentation actions of a session.
C1_OnePresentationPerIdentity ==
    \A t \in Times : Count(presentLog, t) <= 1

\* C2: the first poll result processed after a facility is selected performs no
\* presentation action.
C2_FirstFetchSuppressed ==
    [][(selPhase = "fresh" /\ selPhase' = "seeded") => presentLog' = presentLog]_vars

\* C3: while the modal stays up (no dismissal), the alert it shows after a further delivery
\* is the newer one: the shown timestamp never goes back to an older alert.
C3_NewestWins ==
    [][(modalShown /\ modalShown') => modalAlert' >= modalAlert]_vars

ActivationFails ==
    \/ ~swSupported /\ enPc = "idle" /\ notifStatus # "error" /\ notifStatus' = "error"
    \/ enPc = "registering" /\ enPc' = "idle"

C6_PollPresentsEveryAlert ==
    [][\A r \in BagToSet(reqs) :
          (Processes(r) /\ dashboard /\ selPhase = "seeded" /\ r.center = selectedCenter)
             => \A t \in Range(r.body) : t > selectedAt => t \in Range(presentLog')]_vars

\* C7: after polls that returned an empty feed (lastAlertTime still null), the poll that
\* first returns an alert T1 performs exactly one presentation action, for T1.
C7_FirstAlertAfterEmptyFeed ==
    [][(selPhase = "seeded" /\ lastAlertTime = NULL /\ lastAlertTime' # NULL)
          => /\ presentLog' = Append(presentLog, lastAlertTime')
             /\ modalShown'
             /\ modalAlert' = lastAlertTime']_vars

\* C8: while a facility stays selected, lastAlertTime never decreases.
C8_LastAlertTimeMonotonic ==
    [][(dashboard /\ dashboard' /\ lastAlertTime # NULL)
          => lastAlertTime' >= lastAlertTime]_vars

\* C9: the step that clears the selection (changeCenterView) stops the poll timer and
\* leaves lastAlertTime null.
C9_ClearResetsState ==
    [][(dashboard /\ ~dashboard') => (activeTimers' = {} /\ lastAlertTime' = NULL)]_vars

\* C10: between the clearing of the selection and the next selection, no GET /alerts
\* request is issued and no response changes lastAlertTime or presents an alert.
C10_NothingWhileCleared ==
    [][(selPhase = "cleared" /\ selPhase' = "cleared")
          => /\ BagCardinality(reqs') <= BagCardinality(reqs)
             /\ lastAlertTime' = lastAlertTime
             /\ presentLog' = presentLog]_vars


C12_PostedOnlyWhenReady ==
    page = "loading" => msgs = <<>>

\* C13: an event without a timestamp, handed over by ALERT_CLICKED or newest in a
\* poll response, is dropped: the step that consumes it presents nothing and leaves
\* lastAlertTime (an unset one may pass from null to undefined), the modal and the
\* status dot as they were
C13_MalformedDropped ==
    [][( \/ /\ msgs # <<>>
            /\ Head(msgs) = Undefined
            /\ msgs' = Tail(msgs)
         \/ \E r \in BagToSet(reqs) :
               /\ Processes(r)
               /\ Len(r.body) > 0
               /\ r.body[1] = Undefined )
          => /\ presentLog' = presentLog
             /\ \/ lastAlertTime' = lastAlertTime
                \/ ~Truthy(lastAlertTime) /\ ~Truthy(lastAlertTime')
             /\ modalShown' = modalShown
             /\ dot' = dot]_vars

\* C14: once the alert shown in the modal has been dismissed, no later event, pushed
\* or polled, presents the same identity again
C14_DismissedIdentityAbsorbed ==
    [][(~modalShown /\ modalAlert # NULL /\ presentLog' # presentLog)
          => modalAlert' # modalAlert]_vars

\* C15: a poll response is presented only if lastAlertTime was set and the newest
\* timestamp of the response is greater than lastAlertTime
C15_PresentedOnlyIfStrictlyNewer ==
    [][\A r \in BagToSet(reqs) :
          (Processes(r) /\ presentLog' # presentLog)
             => (Truthy(lastAlertTime) /\ r.body[1] > lastAlertTime)]_vars

\* C16: while the modal shows T1 and the dot is 'alerting', a poll response of a
\* selection past its first fetch whose newest alert T2 is greater than T1 is
\* presented: one presentation action more, and the modal shows T2
C16_NewerAlertReenters ==
    [][\A r \in BagToSet(reqs) :
          ( /\ Processes(r)
            /\ selPhase = "seeded"
            /\ modalShown /\ dot = "alerting" /\ modalAlert \in Times
            /\ Len(r.body) > 0
            /\ r.body[1] > modalAlert )
             => ( /\ presentLog' = Append(presentLog, r.body[1])
                  /\ modalShown' /\ dot' = "alerting"
                  /\ modalAlert' = r.body[1] )]_vars

\* C17: when the service worker never reaches 'activated', the wait for activation
\* still ends and enableNotifications arrives at the permission step
C17_ActivationWaitBounded ==
    (enPc = "waitActive") ~> (enPc = "permission")

\* the permission step reached with a registered worker that never activated
C17_Witness ==
    /\ enPc = "permission"
    /\ swRegistration
    /\ permission = "default"

\* C18: when pushManager.subscribe rejects or the POST /subscribe fails, the run
\* still stores the selection, reports success and schedules showDashboard, and the
\* showDashboard it scheduled starts the polling interval
C18_SubscriptionFailureStillPolls ==
    /\ [][( \/ enPc = "subscribing" /\ enPc' = "idle"
            \/ enPc = "posting" /\ enPc' = "idle" /\ subscribed' = subscribed )
             => /\ savedCenter' = IF selectedCenter = NoCenter THEN NullStr
                                                              ELSE selectedCenter
                /\ notifStatus' = "success"
                /\ dashTimers' = dashTimers + 1]_vars
    /\ [][dashTimers' < dashTimers
             => (dashboard' /\ pollInterval' \in activeTimers')]_vars

\* VAPID key configured, permission granted, no subscription stored, and the
\* dashboard is polling for the persisted centre
C18_Witness ==
    /\ vapidConfigured
    /\ permission = "granted"
    /\ subscribed = {}
    /\ savedCenter \in Centers
    /\ dashboard
    /\ pollInterval \in activeTimers

\* C19: without a configured VAPID key a run never waits on pushManager.subscribe
\* or POST /subscribe and no subscription is stored; the granted permission leads
\* straight to storing the selection, the success text and the scheduled
\* showDashboard
C19_NoKeySkipsSubscription ==
    /\ [](~vapidConfigured => ( /\ enPc \notin {"subscribing", "posting"}
                                /\ postCenter = NoCenter
                                /\ subscribed = {} ))
    /\ [][( /\ ~vapidConfigured
            /\ enPc = "permission"
            /\ enPc' # "permission"
            /\ permission' = "granted" )
             => /\ enPc' = "idle"
                /\ savedCenter' = IF selectedCenter = NoCenter THEN NullStr
                                                              ELSE selectedCenter
                /\ notifStatus' = "success"
                /\ dashTimers' = dashTimers + 1]_vars

\* no VAPID key, permission granted, the selection stored and showDashboard pending
C19_Witness ==
    /\ ~vapidConfigured
    /\ permission = "granted"
    /\ notifStatus = "success"
    /\ savedCenter \in Centers
    /\ dashTimers = 1

\* C20: a poll that ends in loadAlerts' catch presents nothing, leaves lastAlertTime,
\* selectedCenter, the modal and the interval as they were, and leaves the next tick
\* able to fetch
C20_FailedPollSwallowed ==
    [][(\E r \in BagToSet(reqs) : r.st = "sent" /\ reqs' = reqs (-) SetToBag({r}))
          => /\ presentLog' = presentLog
             /\ lastAlertTime' = lastAlertTime
             /\ selectedCenter' = selectedCenter
             /\ modalShown' = modalShown
             /\ pollInterval' = pollInterval
             /\ activeTimers' = activeTimers
             /\ activeTimers' # {}
             /\ selectedCenter' # NoCenter
             /\ BagCardinality(reqs') < MaxInflight]_vars

\* the dashboard polls, the request of showDashboard ended in the catch, and no
\* response has been processed for this selection
C20_Witness ==
    /\ dashboard
    /\ selPhase = "fresh"
    /\ reqs = EmptyBag
    /\ pollInterval \in activeTimers
    /\ presentLog = <<>>

\* C21: every push event the service worker receives ends in a showNotification
\* call for its payload
C21_EveryPushNotifies ==
    [][\A t \in pushes : (pushes' = pushes \ {t}) => swNotif' = t]_vars

\* C22: a click with action 'view' posts the notification's payload once to the
\* app's window when there is one, and otherwise opens the app and leaves exactly
\* that payload to one delayed post, which the window receives if it still exists; a
\* click with action 'dismiss' posts nothing, opens nothing and schedules nothing
C22_ViewHandsOneMessage ==
    /\ [][(swNotif # NULL /\ swNotif' = NULL /\ clickAction' = "view")
             => IF page # "closed"
                   THEN /\ msgs' = Append(msgs, swNotif)
                        /\ page' = page
                        /\ swDelayed' = swDelayed
                   ELSE /\ page' = "loading"
                        /\ swDelayed' = swDelayed \cup {swNotif}
                        /\ swNotif \notin swDelayed
                        /\ msgs' = msgs]_vars
    /\ [][\A t \in swDelayed :
             (swDelayed' = swDelayed \ {t} /\ page # "closed")
                => msgs' = Append(msgs, t)]_vars
    /\ [][(swNotif # NULL /\ swNotif' = NULL /\ clickAction' = "dismiss")
             => (msgs' = msgs /\ page' = page /\ swDelayed' = swDelayed)]_vars

\* the app was closed, a 'view' click opened it, and the delayed post has handed
\* the payload to the window
C22_Witness ==
    /\ clickAction = "view"
    /\ page = "loading"
    /\ Len(msgs) = 1
    /\ swDelayed = {}

\* C23: a /geocode answer with found = true and no emergency service leaves the map
\* section displayed with the incident marker alone, and the panel shows the 'no
\* help centers found' text
C23_EmptyListIsAResult ==
    \A i \in Cards :
       ( /\ mapCards[i].pc = "done"
         /\ mapCards[i].answer.st = "ok"
         /\ mapCards[i].answer.found
         /\ mapCards[i].answer.services = <<>> )
          => /\ mapCards[i].section = "visible"
             /\ mapCards[i].markers = <<"incident">>
             /\ mapCards[i].panel = [kind |-> "empty", items |-> <<>>]

\* a card whose lookup found the location and no service
C23_Witness ==
    \E i \in Cards :
       /\ mapCards[i].pc = "done"
       /\ mapCards[i].answer.st = "ok"
       /\ mapCards[i].answer.found
       /\ mapCards[i].answer.services = <<>>

\* C24: two cards given the same /geocode answer show the same panel and markers,
\* and the panel of a card lists the services of its answer in the answer's order,
\* none dropped, none twice
C24_SameAnswerSameOrder ==
    /\ \A i, j \in Cards :
          ( /\ mapCards[i].pc = "done" /\ mapCards[j].pc = "done"
            /\ mapCards[i].answer = mapCards[j].answer )
             => /\ mapCards[i].panel = mapCards[j].panel
                /\ mapCards[i].markers = mapCards[j].markers
    /\ \A i \in Cards :
          (mapCards[i].pc = "done" /\ mapCards[i].answer.found)
             => /\ mapCards[i].panel.items = mapCards[i].answer.services
                /\ mapCards[i].markers = <<"incident">> \o mapCards[i].answer.services

\* two cards given the same answer with two services of different types
C24_Witness ==
    /\ mapCards[1].pc = "done"
    /\ mapCards[2].pc = "done"
    /\ mapCards[1].answer = mapCards[2].answer
    /\ mapCards[1].answer.found
    /\ Len(mapCards[1].answer.services) = 2
    /\ mapCards[1].answer.services[1] # mapCards[1].answer.services[2]

\* C25: a poll response whose newest timestamp equals lastAlertTime presents
\* nothing and leaves lastAlertTime, the modal and the status dot as they were
C25_UnchangedPollNoAction ==
    [][\A r \in BagToSet(reqs) :
          ( /\ Processes(r)
            /\ Len(r.body) > 0
            /\ r.body[1] = lastAlertTime )
             => /\ presentLog' = presentLog
                /\ lastAlertTime' = lastAlertTime
                /\ modalShown' = modalShown
                /\ modalAlert' = modalAlert
                /\ dot' = dot
                /\ restoreTimers' = restoreTimers]_vars

\* a seeded selection with two decoded responses pending whose newest timestamp is
\* lastAlertTime: two such polls in a row
C25_Witness ==
    /\ selPhase = "seeded"
    /\ Truthy(lastAlertTime)
    /\ presentLog = <<>>
    /\ \E r \in BagToSet(reqs) :
          /\ r.st = "ok"
          /\ Len(r.body) > 0
          /\ r.body[1] = lastAlertTime
          /\ CopiesIn(r, reqs) = 2

\* C26: once the page has loaded, a poll response for a centre other than the one
\* selected when it is processed changes neither lastAlertTime nor what is presented
C26_StaleCentreResponseIgnored ==
    [][\A r \in BagToSet(reqs) :
          (Processes(r) /\ r.center # selectedCenter /\ loadPc = "done")
             => /\ lastAlertTime' = lastAlertTime
                /\ presentLog' = presentLog]_vars

\* C27: at most one poll timer ticks, it is the one pollInterval holds, and none
\* ticks while the dashboard is not displayed
C27_AtMostOnePollTimer ==
    /\ Cardinality(activeTimers) <= 1
    /\ activeTimers \subseteq {pollInterval}
    /\ ~dashboard => activeTimers = {}

\* showDashboard ran at least twice and changeCenterView ran after it
C27_Witness ==
    /\ pollInterval = 2
    /\ selPhase = "cleared"
    /\ ~dashboard
    /\ activeTimers = {}

\* C28: while the dot is 'alerting' for the alert presented last, the 60 s timeout
\* of an earlier presentation (one that fires while a later one is still pending)
\* leaves the dot 'alerting'
C28_EarlierTimerKeepsAlerting ==
    [][(dot = "alerting" /\ restoreTimers > 1 /\ restoreTimers' = restoreTimers - 1)
          => dot' = "alerting"]_vars

\* C29: the centre a run of enableNotifications sends in POST /subscribe, and the
\* one it writes to localStorage, is the centre that was selected at the click that
\* started the run
C29_RunKeepsItsCentre ==
    /\ [][(enPc = "subscribing" /\ enPc' = "posting") => postCenter' = enCenter]_vars
    /\ [][(enPc # "idle" /\ enPc' = "idle" /\ notifStatus' = "success")
             => savedCenter' = enCenter]_vars

\* C30: on a page loaded with a persisted centre of the directory and the permission
\* granted, the delayed check of the load listener runs showDashboard, whether or
\* not GET /centers has been answered by then
C30_AutoResume ==
    [][(loadPc \in Centers /\ loadPc' = "done") => dashboard']_vars

====
